---- MODULE Spec2Model ----
(***************************************************************************)
(* State-machine model of the devconnector REST back end: the post routes  *)
(* (src/routes/api/posts.js) and the profile routes (src/unnamed/part_000).*)
(* The three document collections are the state; every route handler is    *)
(* split at its awaited store calls, so that handlers of concurrent        *)
(* requests interleave exactly where the event loop lets them.             *)
(***************************************************************************)
EXTENDS Integers, Sequences, FiniteSets, TLC

\* ------------------------------------------------------------------ bounds
\* Callers holding a verifiable token (req.user.id after the auth gate).
Users == {"u1", "u2"}
\* Like and unlike requests that may be in flight at once (a slot is reused
\* once its request is answered).
MaxReqs == 2
\* Identifiers (posts, comments, experience, education) generated in a run.
MaxIds == 2

Reqs == 1..MaxReqs
\* The other routes are explored with two requests in flight at once.
Pair == {1, 2}
\* The post identifier the post routes are called with.
PostIds == {1}
SubIds == 1..MaxIds

\* ------------------------------------------------------- JavaScript arrays
\* A JavaScript array is a sequence; JavaScript index i is element i + 1.
Null == <<>>
Some(d) == <<d>>

Min(a, b) == IF a < b THEN a ELSE b
Max(a, b) == IF a > b THEN a ELSE b

\* Array.prototype.indexOf: the first JavaScript index holding x, -1 if none.
IndexOf(s, x) ==
  IF \E i \in 1..Len(s) : s[i] = x
  THEN (CHOOSE i \in 1..Len(s) : s[i] = x /\ \A j \in 1..(i - 1) : s[j] # x) - 1
  ELSE -1

\* Array.prototype.splice(start, deleteCount): a negative start counts from
\* the end of the array, so splice(-1, 1) removes the last element.
Splice(s, start, deleteCount) ==
  LET len == Len(s)
      from == IF start < 0 THEN Max(len + start, 0) ELSE Min(start, len)
      cnt == Min(Max(deleteCount, 0), len - from)
  IN  SubSeq(s, 1, from) \o SubSeq(s, from + cnt + 1, len)

\* Array.prototype.unshift
Unshift(s, x) == <<x>> \o s

\* ------------------------------------------------------------------- state
VARIABLES
  users,     \* identity store: the ids of the User documents
  profiles,  \* profile store: owner id -> Profile document
  posts,     \* post store: post id -> Post document
  reqs,      \* the requests in flight or answered: slot -> request
  nextId     \* the next sub-document identifier to be generated

vars == <<users, profiles, posts, reqs, nextId>>

\* A request slot nobody uses.
IdleReq ==
  [kind |-> "none", caller |-> "none", post |-> 0, target |-> 0,
   pc |-> "idle", user |-> Null, doc |-> Null, resp |-> "none",
   stale |-> FALSE]

\* The request slots of the run.
Slots == DOMAIN reqs

Free(r) == reqs[r].pc \in {"idle", "done"}

\* The handler of slot r has read its document and is suspended at its next
\* awaited store call.
NewReq(kind, u, p, t, user, doc) ==
  [kind |-> kind, caller |-> u, post |-> p, target |-> t,
   pc |-> "loaded", user |-> user, doc |-> doc, resp |-> "none",
   stale |-> FALSE]

\* The request of slot r is answered (resp "unhandled": the handler's promise
\* rejected and the client is never answered).
Answered(r, resp) ==
  [reqs[r] EXCEPT !.pc = "done", !.user = Null, !.doc = Null, !.resp = resp]

\* A validation failure answers before any store call.
Rejected(kind, u, p, t) ==
  [kind |-> kind, caller |-> u, post |-> p, target |-> t,
   pc |-> "done", user |-> Null, doc |-> Null, resp |-> "400",
   stale |-> FALSE]

\* Post.findById: the stored document, or null.
FindPost(p) == IF p \in DOMAIN posts THEN Some(posts[p]) ELSE Null

\* Profile.findOne({ user }): the caller's profile, or null.
FindProfile(u) == IF u \in DOMAIN profiles THEN Some(profiles[u]) ELSE Null

\* User.findById: the user's id when the User document exists, or null.
FindUser(u) == IF u \in users THEN Some(u) ELSE Null

\* A handler's answer: the response status and the document it hands to
\* save(), Null when it returns before saving.
Answer(resp, write) == [resp |-> resp, write |-> write]

\* The catch blocks of like and unlike bind the exception as `error` and
\* then read `err.message`: the read throws a ReferenceError inside the
\* catch block, the async handler's promise rejects and no response is sent.
CatchLike == "unhandled"

\* Every other catch block logs the bound exception and answers 500.
CatchServerError == "500"

\* ------------------------------------------------------------ the documents
\* new Post({ text, name, avatar, user }): likes and comments start empty.
NewPost(u) == [user |-> u, likes |-> <<>>, comments |-> <<>>]

\* A collection holding no document.
EmptyStore == [k \in {} |-> Null]

\* Mutant of Save: the likes of the saved document are merged into the stored
\* likes instead of replacing them.
SaveMerged(store, id, doc) ==
  IF id \in DOMAIN store
  THEN [store EXCEPT ![id] =
          [doc EXCEPT !.likes =
             doc.likes \o SelectSeq(store[id].likes,
                                    LAMBDA l : \A i \in 1..Len(doc.likes) :
                                                 doc.likes[i] # l)]]
  ELSE store

\* document.save() of a loaded document: an update by _id that writes the
\* in-memory document back; it is no upsert, so a document deleted since it
\* was loaded is not written.
Save(store, id, doc) ==
  IF id \in DOMAIN store THEN [store EXCEPT ![id] = doc] ELSE store

\* document.remove() / deleteOne by key.
Remove(store, id) == [k \in (DOMAIN store) \ {id} |-> store[k]]

\* -------------------------------------------------- PUT /posts/like/:id
\* Mutant of AlreadyLiked: only the newest like is compared with the caller.
AlreadyLikedFirstOnly(post, u) ==
  Len(post.likes) > 0 /\ post.likes[1].user = u

AlreadyLiked(post, u) ==
  Len(SelectSeq(post.likes, LAMBDA like : like.user = u)) > 0

\* Mutant of LikeMutate: push instead of unshift.
LikePush(post, u) ==
  [post EXCEPT !.likes = Append(@, [user |-> u])]

LikeMutate(post, u) ==
  [post EXCEPT !.likes = Unshift(@, [user |-> u])]

Like(doc, u) ==
  IF doc = Null THEN Answer(CatchLike, Null)
  ELSE IF AlreadyLiked(doc[1], u) THEN Answer("400", Null)
  ELSE Answer("200", Some(LikeMutate(doc[1], u)))

\* ------------------------------------------------ PUT /posts/unlike/:id
NotYetLiked(post, u) ==
  Len(SelectSeq(post.likes, LAMBDA like : like.user = u)) = 0

\* Mutant of UnlikeRemoveIndex: the newest like is removed, whoever made it.
UnlikeRemoveFirst(post, u) == 0

UnlikeRemoveIndex(post, u) ==
  IndexOf([i \in 1..Len(post.likes) |-> post.likes[i].user], u)

UnlikeMutate(post, u) ==
  [post EXCEPT !.likes = Splice(@, UnlikeRemoveIndex(post, u), 1)]

Unlike(doc, u) ==
  IF doc = Null THEN Answer(CatchLike, Null)
  ELSE IF NotYetLiked(doc[1], u) THEN Answer("400", Null)
  ELSE Answer("200", Some(UnlikeMutate(doc[1], u)))

\* ----------------------------------------------- POST /posts/comment/:id
CommentMutate(post, u, id) ==
  [post EXCEPT !.comments = Unshift(@, [id |-> id, user |-> u])]

\* user.name on a null user and post.comments on a null post throw a
\* TypeError, which the catch block answers with 500.
AddComment(user, doc, u, id) ==
  IF user = Null \/ doc = Null THEN Answer(CatchServerError, Null)
  ELSE Answer("200", Some(CommentMutate(doc[1], u, id)))

\* ------------------------------ DELETE /posts/comment/:id/:comment_id
\* post.comments.find: the first comment with the id, or undefined (Null).
FindComment(post, cid) ==
  LET hits == SelectSeq(post.comments, LAMBDA comment : comment.id = cid)
  IN  IF Len(hits) > 0 THEN Some(hits[1]) ELSE Null

CommentRemoveIndex(post, u) ==
  IndexOf([i \in 1..Len(post.comments) |-> post.comments[i].user], u)

DeleteCommentMutate(post, u) ==
  [post EXCEPT !.comments = Splice(@, CommentRemoveIndex(post, u), 1)]

DeleteComment(doc, u, cid) ==
  IF doc = Null THEN Answer(CatchServerError, Null)
  ELSE IF FindComment(doc[1], cid) = Null THEN Answer("404", Null)
  ELSE IF FindComment(doc[1], cid)[1].user # u THEN Answer("401", Null)
  ELSE Answer("200", Some(DeleteCommentMutate(doc[1], u)))

\* ------------------------------------------------------ DELETE /posts/:id
\* Mutant of DeletePost: the author check is missing.
DeletePostNoAuthorCheck(doc, u) ==
  IF doc = Null THEN "404" ELSE "200"

DeletePost(doc, u) ==
  IF doc = Null THEN "404"
  ELSE IF doc[1].user # u THEN "401"
  ELSE "200"

\* ------------------------------------------------------------ the actions
\* Requests that will generate a sub-document identifier when they resume.
AddKinds == {"comment", "addExperience", "addEducation", "createPost"}

InFlightAdds ==
  Cardinality({r \in Slots : reqs[r].pc = "loaded" /\ reqs[r].kind \in AddKinds})

CanAdd == nextId + InFlightAdds <= MaxIds

\* The handler of slot r resumes after findById with answer ans: it answers
\* at once, or awaits post.save() and answers after it.  Saving a document
\* that was deleted meanwhile either succeeds without effect or throws,
\* depending on the driver; catch is what the handler's catch block answers.
\* stale records that the stored document was no longer the one the handler
\* had loaded when it saved (bookkeeping only: no handler reads it).
ResumePost(r, ans, catch) ==
  LET p == reqs[r].post
  IN  IF ans.write = Null
      THEN /\ posts' = posts
           /\ reqs' = [reqs EXCEPT ![r] = Answered(r, ans.resp)]
      ELSE IF p \in DOMAIN posts
      THEN /\ posts' = Save(posts, p, ans.write[1])
           /\ reqs' = [reqs EXCEPT ![r] =
                         [Answered(r, ans.resp) EXCEPT
                            !.stale = (reqs[r].doc # Some(posts[p]))]]
      ELSE /\ posts' = posts
           /\ \E thrown \in BOOLEAN :
                reqs' = [reqs EXCEPT ![r] =
                           Answered(r, IF thrown THEN catch ELSE ans.resp)]

LikeLoad(r, u, p) ==
  /\ Free(r)
  /\ reqs' = [reqs EXCEPT ![r] = NewReq("like", u, p, 0, Null, FindPost(p))]
  /\ UNCHANGED <<users, profiles, posts, nextId>>

LikeSave(r) ==
  /\ reqs[r].pc = "loaded" /\ reqs[r].kind = "like"
  /\ ResumePost(r, Like(reqs[r].doc, reqs[r].caller), CatchLike)
  /\ UNCHANGED <<users, profiles, nextId>>

UnlikeLoad(r, u, p) ==
  /\ Free(r)
  /\ reqs' = [reqs EXCEPT ![r] = NewReq("unlike", u, p, 0, Null, FindPost(p))]
  /\ UNCHANGED <<users, profiles, posts, nextId>>

UnlikeSave(r) ==
  /\ reqs[r].pc = "loaded" /\ reqs[r].kind = "unlike"
  /\ ResumePost(r, Unlike(reqs[r].doc, reqs[r].caller), CatchLike)
  /\ UNCHANGED <<users, profiles, nextId>>

\* An empty text fails validation (400) before any store call.  The handler
\* awaits User.findById and then Post.findById; no action of the post routes
\* writes the identity store, so the two reads are one step.
CommentLoad(r, u, p, textEmpty) ==
  /\ Free(r)
  /\ IF textEmpty
     THEN reqs' = [reqs EXCEPT ![r] = Rejected("comment", u, p, 0)]
     ELSE /\ CanAdd
          /\ reqs' = [reqs EXCEPT ![r] =
                        NewReq("comment", u, p, 0, FindUser(u), FindPost(p))]
  /\ UNCHANGED <<users, profiles, posts, nextId>>

\* unshift casts the new comment to a sub-document with a fresh identifier.
CommentSave(r) ==
  /\ reqs[r].pc = "loaded" /\ reqs[r].kind = "comment"
  /\ LET ans == AddComment(reqs[r].user, reqs[r].doc, reqs[r].caller, nextId)
     IN  /\ ResumePost(r, ans, CatchServerError)
         /\ nextId' = IF ans.write = Null THEN nextId ELSE nextId + 1
  /\ UNCHANGED <<users, profiles>>

DeleteCommentLoad(r, u, p, cid) ==
  /\ Free(r)
  /\ reqs' = [reqs EXCEPT ![r] =
                NewReq("deleteComment", u, p, cid, Null, FindPost(p))]
  /\ UNCHANGED <<users, profiles, posts, nextId>>

DeleteCommentSave(r) ==
  /\ reqs[r].pc = "loaded" /\ reqs[r].kind = "deleteComment"
  /\ ResumePost(r, DeleteComment(reqs[r].doc, reqs[r].caller, reqs[r].target),
                CatchServerError)
  /\ UNCHANGED <<users, profiles, nextId>>

DeletePostLoad(r, u, p) ==
  /\ Free(r)
  /\ reqs' = [reqs EXCEPT ![r] =
                NewReq("deletePost", u, p, 0, Null, FindPost(p))]
  /\ UNCHANGED <<users, profiles, posts, nextId>>

\* post.remove() deletes by _id; removing a document that is already gone
\* succeeds.
DeletePostRemove(r) ==
  /\ reqs[r].pc = "loaded" /\ reqs[r].kind = "deletePost"
  /\ LET resp == DeletePost(reqs[r].doc, reqs[r].caller)
     IN  /\ posts' = IF resp = "200" THEN Remove(posts, reqs[r].post) ELSE posts
         /\ reqs' = [reqs EXCEPT ![r] = Answered(r, resp)]
  /\ UNCHANGED <<users, profiles, nextId>>

\* ------------------------------------------------------ POST /posts
\* An empty text fails validation (400); otherwise the handler awaits
\* User.findById.
CreatePostLoad(r, u, textEmpty) ==
  /\ Free(r)
  /\ IF textEmpty
     THEN reqs' = [reqs EXCEPT ![r] = Rejected("createPost", u, 0, 0)]
     ELSE /\ CanAdd
          /\ reqs' = [reqs EXCEPT ![r] =
                        NewReq("createPost", u, 0, 0, FindUser(u), Null)]
  /\ UNCHANGED <<users, profiles, posts, nextId>>

\* user.name on a null user throws a TypeError (500); otherwise newPost.save()
\* inserts the post under a fresh identifier.
CreatePostSave(r) ==
  /\ reqs[r].pc = "loaded" /\ reqs[r].kind = "createPost"
  /\ IF reqs[r].user = Null
     THEN /\ reqs' = [reqs EXCEPT ![r] = Answered(r, CatchServerError)]
          /\ UNCHANGED <<posts, nextId>>
     ELSE /\ posts' = [k \in (DOMAIN posts) \cup {nextId} |->
                         IF k = nextId THEN NewPost(reqs[r].caller) ELSE posts[k]]
          /\ nextId' = nextId + 1
          /\ reqs' = [reqs EXCEPT ![r] = Answered(r, "200")]
  /\ UNCHANGED <<users, profiles>>

\* ------------------------------------------------------ DELETE /profile
\* Post.deleteMany({ user }): every post of the caller.
DeleteManyPosts(store, u) ==
  [k \in {j \in DOMAIN store : store[j].user # u} |-> store[k]]

DeleteAccountPosts(r, u) ==
  /\ Free(r)
  /\ posts' = DeleteManyPosts(posts, u)
  /\ reqs' = [reqs EXCEPT ![r] =
                [NewReq("deleteAccount", u, 0, 0, Null, Null) EXCEPT
                   !.pc = "profile"]]
  /\ UNCHANGED <<users, profiles, nextId>>

\* Profile.findOneAndRemove({ user })
DeleteAccountProfile(r) ==
  /\ reqs[r].pc = "profile" /\ reqs[r].kind = "deleteAccount"
  /\ profiles' = Remove(profiles, reqs[r].caller)
  /\ reqs' = [reqs EXCEPT ![r].pc = "user"]
  /\ UNCHANGED <<users, posts, nextId>>

\* User.findOneAndRemove({ _id }) and the answer { msg: 'User deleted' }.
DeleteAccountUser(r) ==
  /\ reqs[r].pc = "user" /\ reqs[r].kind = "deleteAccount"
  /\ users' = users \ {reqs[r].caller}
  /\ reqs' = [reqs EXCEPT ![r] = Answered(r, "200")]
  /\ UNCHANGED <<profiles, posts, nextId>>

\* ---------------------------------------------- PUT /profile/experience
\* The profile's embedded lists; an entry is known by its generated id.
NewProfile == [experience |-> <<>>, education |-> <<>>]

\* Mutant of AddExperienceMutate: push instead of unshift.
AddExperiencePush(profile, id) ==
  [profile EXCEPT !.experience = Append(@, [id |-> id])]

AddExperienceMutate(profile, id) ==
  [profile EXCEPT !.experience = Unshift(@, [id |-> id])]

\* profile.experience on a null profile throws a TypeError (500).
AddExperience(doc, id) ==
  IF doc = Null THEN Answer(CatchServerError, Null)
  ELSE Answer("200", Some(AddExperienceMutate(doc[1], id)))

\* ------------------------------------- DELETE /profile/experience/:exp_id
ExperienceRemoveIndex(profile, expId) ==
  IndexOf([i \in 1..Len(profile.experience) |-> profile.experience[i].id],
          expId)

RemoveExperienceMutate(profile, expId) ==
  [profile EXCEPT
     !.experience = Splice(@, ExperienceRemoveIndex(profile, expId), 1)]

RemoveExperience(doc, expId) ==
  IF doc = Null THEN Answer(CatchServerError, Null)
  ELSE Answer("200", Some(RemoveExperienceMutate(doc[1], expId)))

\* ----------------------------------------------- PUT /profile/education
AddEducationMutate(profile, id) ==
  [profile EXCEPT !.education = Unshift(@, [id |-> id])]

AddEducation(doc, id) ==
  IF doc = Null THEN Answer(CatchServerError, Null)
  ELSE Answer("200", Some(AddEducationMutate(doc[1], id)))

\* -------------------------------------- DELETE /profile/education/:edu_id
EducationRemoveIndex(profile, eduId) ==
  IndexOf([i \in 1..Len(profile.education) |-> profile.education[i].id],
          eduId)

RemoveEducationMutate(profile, eduId) ==
  [profile EXCEPT
     !.education = Splice(@, EducationRemoveIndex(profile, eduId), 1)]

RemoveEducation(doc, eduId) ==
  IF doc = Null THEN Answer(CatchServerError, Null)
  ELSE Answer("200", Some(RemoveEducationMutate(doc[1], eduId)))

\* The handler of slot r resumes after Profile.findOne with answer ans, as
\* ResumePost does for a post.
ResumeProfile(r, ans, catch) ==
  LET u == reqs[r].caller
  IN  IF ans.write = Null
      THEN /\ profiles' = profiles
           /\ reqs' = [reqs EXCEPT ![r] = Answered(r, ans.resp)]
      ELSE IF u \in DOMAIN profiles
      THEN /\ profiles' = Save(profiles, u, ans.write[1])
           /\ reqs' = [reqs EXCEPT ![r] =
                         [Answered(r, ans.resp) EXCEPT
                            !.stale = (reqs[r].doc # Some(profiles[u]))]]
      ELSE /\ profiles' = profiles
           /\ \E thrown \in BOOLEAN :
                reqs' = [reqs EXCEPT ![r] =
                           Answered(r, IF thrown THEN catch ELSE ans.resp)]

\* A missing required field fails validation (400) before any store call.
AddExperienceLoad(r, u, valid) ==
  /\ Free(r)
  /\ IF ~valid
     THEN reqs' = [reqs EXCEPT ![r] = Rejected("addExperience", u, 0, 0)]
     ELSE /\ CanAdd
          /\ reqs' = [reqs EXCEPT ![r] =
                        NewReq("addExperience", u, 0, 0, Null, FindProfile(u))]
  /\ UNCHANGED <<users, profiles, posts, nextId>>

AddExperienceSave(r) ==
  /\ reqs[r].pc = "loaded" /\ reqs[r].kind = "addExperience"
  /\ LET ans == AddExperience(reqs[r].doc, nextId)
     IN  /\ ResumeProfile(r, ans, CatchServerError)
         /\ nextId' = IF ans.write = Null THEN nextId ELSE nextId + 1
  /\ UNCHANGED <<users, posts>>

RemoveExperienceLoad(r, u, expId) ==
  /\ Free(r)
  /\ reqs' = [reqs EXCEPT ![r] =
                NewReq("removeExperience", u, 0, expId, Null, FindProfile(u))]
  /\ UNCHANGED <<users, profiles, posts, nextId>>

RemoveExperienceSave(r) ==
  /\ reqs[r].pc = "loaded" /\ reqs[r].kind = "removeExperience"
  /\ ResumeProfile(r, RemoveExperience(reqs[r].doc, reqs[r].target),
                   CatchServerError)
  /\ UNCHANGED <<users, posts, nextId>>

AddEducationLoad(r, u, valid) ==
  /\ Free(r)
  /\ IF ~valid
     THEN reqs' = [reqs EXCEPT ![r] = Rejected("addEducation", u, 0, 0)]
     ELSE /\ CanAdd
          /\ reqs' = [reqs EXCEPT ![r] =
                        NewReq("addEducation", u, 0, 0, Null, FindProfile(u))]
  /\ UNCHANGED <<users, profiles, posts, nextId>>

AddEducationSave(r) ==
  /\ reqs[r].pc = "loaded" /\ reqs[r].kind = "addEducation"
  /\ LET ans == AddEducation(reqs[r].doc, nextId)
     IN  /\ ResumeProfile(r, ans, CatchServerError)
         /\ nextId' = IF ans.write = Null THEN nextId ELSE nextId + 1
  /\ UNCHANGED <<users, posts>>

RemoveEducationLoad(r, u, eduId) ==
  /\ Free(r)
  /\ reqs' = [reqs EXCEPT ![r] =
                NewReq("removeEducation", u, 0, eduId, Null, FindProfile(u))]
  /\ UNCHANGED <<users, profiles, posts, nextId>>

RemoveEducationSave(r) ==
  /\ reqs[r].pc = "loaded" /\ reqs[r].kind = "removeEducation"
  /\ ResumeProfile(r, RemoveEducation(reqs[r].doc, reqs[r].target),
                   CatchServerError)
  /\ UNCHANGED <<users, posts, nextId>>

\* ---------------------------------------------------------- POST /profile
\* A body field that the request omits (JavaScript undefined).
Undefined == "undefined"

\* What the store holds for a field that $set was given as undefined.
StoredNull == "null"

\* String.prototype.split on a separator; a string is a sequence of
\* characters.
RECURSIVE SplitOn(_, _)
SplitOn(s, sep) ==
  IF \E i \in 1..Len(s) : s[i] = sep
  THEN LET i == CHOOSE k \in 1..Len(s) :
                  s[k] = sep /\ \A j \in 1..(k - 1) : s[j] # sep
       IN  <<SubSeq(s, 1, i - 1)>> \o SplitOn(SubSeq(s, i + 1, Len(s)), sep)
  ELSE <<s>>

\* String.prototype.trim
RECURSIVE Trim(_)
Trim(s) ==
  IF Len(s) > 0 /\ s[1] = " " THEN Trim(Tail(s))
  ELSE IF Len(s) > 0 /\ s[Len(s)] = " " THEN Trim(SubSeq(s, 1, Len(s) - 1))
  ELSE s

\* normalize(url, { forceHttps: true }) on the URLs the requests carry: a
\* missing protocol is added, http becomes https, a trailing slash goes.
Normalize(url) ==
  CASE url \in {"a.com", "http://a.com", "https://a.com/"} -> "https://a.com"
    [] url \in {"t.co", "http://t.co/"} -> "https://t.co"
    [] url \in {"y.tv", "http://y.tv"} -> "https://y.tv"

\* skills: an array is kept, a string is split on commas and each part is
\* trimmed and prefixed with a space.
SkillsField(skills) ==
  IF skills.isArray THEN skills.list
  ELSE LET parts == SplitOn(skills.text, ",")
       IN  [i \in 1..Len(parts) |-> <<" ">> \o Trim(parts[i])]

WebsiteField(website) ==
  IF website # Undefined /\ website # "" THEN Normalize(website) ELSE ""

\* A social link that is given and not empty is normalized; any other value
\* stays what it is.
SocialField(value) ==
  IF value # Undefined /\ value # "" THEN Normalize(value) ELSE value

ProfileFields(u, body) ==
  [user |-> u,
   company |-> body.company,
   location |-> body.location,
   website |-> WebsiteField(body.website),
   bio |-> body.bio,
   skills |-> SkillsField(body.skills),
   status |-> body.status,
   githubusername |-> body.githubusername,
   social |-> [youtube |-> SocialField(body.youtube),
               twitter |-> SocialField(body.twitter),
               instagram |-> SocialField(body.instagram),
               linkedin |-> SocialField(body.linkedin),
               facebook |-> SocialField(body.facebook)]]

\* check('status').not().isEmpty(), check('skills').not().isEmpty()
ValidProfileBody(body) ==
  /\ body.status \notin {Undefined, ""}
  /\ IF body.skills.isArray THEN body.skills.list # <<>>
                            ELSE body.skills.text # <<>>

\* $set of one field: undefined is stored as null.
SetValue(v) == IF v = Undefined THEN StoredNull ELSE v

\* Mutant of FindOneAndUpdate: a field the request omits keeps the value the
\* stored profile has for it.
FindOneAndUpdateKeepOmitted(store, u, fields) ==
  LET had == u \in DOMAIN store
      keep(f) == IF fields[f] = Undefined /\ had THEN store[u][f]
                 ELSE SetValue(fields[f])
      doc == [experience |-> IF had THEN store[u].experience ELSE <<>>,
              education |-> IF had THEN store[u].education ELSE <<>>,
              user |-> fields.user,
              company |-> keep("company"),
              location |-> keep("location"),
              website |-> fields.website,
              bio |-> keep("bio"),
              skills |-> fields.skills,
              status |-> fields.status,
              githubusername |-> keep("githubusername"),
              social |-> [n \in DOMAIN fields.social |->
                            SetValue(fields.social[n])]]
  IN  [k \in (DOMAIN store) \cup {u} |-> IF k = u THEN doc ELSE store[k]]

\* Profile.findOneAndUpdate({ user }, { $set: profileFields },
\* { new: true, upsert: true }): one store operation; the profile of the
\* owner is created when there is none, every field of profileFields is set,
\* and the fields $set does not name (experience, education) stay.
FindOneAndUpdate(store, u, fields) ==
  LET base == IF u \in DOMAIN store THEN store[u] ELSE NewProfile
      doc == [experience |-> base.experience,
              education |-> base.education,
              user |-> fields.user,
              company |-> SetValue(fields.company),
              location |-> SetValue(fields.location),
              website |-> SetValue(fields.website),
              bio |-> SetValue(fields.bio),
              skills |-> fields.skills,
              status |-> SetValue(fields.status),
              githubusername |-> SetValue(fields.githubusername),
              social |-> [n \in DOMAIN fields.social |->
                            SetValue(fields.social[n])]]
  IN  [k \in (DOMAIN store) \cup {u} |-> IF k = u THEN doc ELSE store[k]]

\* The request bodies the upsert is called with: a full profile with skills
\* as a string; another field set with skills as an array; an empty status;
\* empty skills.
Bodies ==
  <<[company |-> "acme", location |-> Undefined, website |-> "a.com",
     bio |-> "hi", status |-> "dev", githubusername |-> "gh",
     skills |-> [isArray |-> FALSE, list |-> <<>>,
                 text |-> <<"j", "s", ",", " ", "g", "o", " ">>],
     youtube |-> Undefined, twitter |-> "http://t.co/",
     instagram |-> Undefined, linkedin |-> "", facebook |-> Undefined],
    [company |-> Undefined, location |-> "x", website |-> Undefined,
     bio |-> Undefined, status |-> "lead", githubusername |-> Undefined,
     skills |-> [isArray |-> TRUE, list |-> << <<"c">> >>, text |-> <<>>],
     youtube |-> "y.tv", twitter |-> Undefined,
     instagram |-> Undefined, linkedin |-> Undefined, facebook |-> Undefined],
    [company |-> "acme", location |-> "x", website |-> "a.com",
     bio |-> "hi", status |-> "", githubusername |-> "gh",
     skills |-> [isArray |-> TRUE, list |-> << <<"c">> >>, text |-> <<>>],
     youtube |-> Undefined, twitter |-> Undefined,
     instagram |-> Undefined, linkedin |-> Undefined, facebook |-> Undefined],
    [company |-> "acme", location |-> "x", website |-> "a.com",
     bio |-> "hi", status |-> "dev", githubusername |-> "gh",
     skills |-> [isArray |-> FALSE, list |-> <<>>, text |-> <<>>],
     youtube |-> Undefined, twitter |-> Undefined,
     instagram |-> Undefined, linkedin |-> Undefined, facebook |-> Undefined]>>

\* The handler validates, builds profileFields and awaits the one store
\* call; the request keeps the index of its body as target.
Upsert(r, u, b) ==
  /\ Free(r)
  /\ IF ~ValidProfileBody(Bodies[b])
     THEN /\ reqs' = [reqs EXCEPT ![r] = Rejected("upsert", u, 0, b)]
          /\ profiles' = profiles
     ELSE /\ profiles' = FindOneAndUpdate(profiles, u,
                                          ProfileFields(u, Bodies[b]))
          /\ reqs' = [reqs EXCEPT ![r] =
                        [NewReq("upsert", u, 0, b, Null, Null) EXCEPT
                           !.pc = "done", !.resp = "200"]]
  /\ UNCHANGED <<users, posts, nextId>>

\* --------------------------------------- like and unlike, concurrently
\* Every token holder is registered; the addressed post id is either absent
\* or holds a post some user created (POST /posts) and nobody touched yet.
Init ==
  /\ users = Users
  /\ profiles = EmptyStore
  /\ \E present \in SUBSET PostIds :
       posts \in [present -> {NewPost(u) : u \in Users}]
  /\ reqs = [r \in Reqs |-> IdleReq]
  /\ nextId = 1

Next ==
  \/ \E r \in Slots, u \in Users, p \in PostIds : LikeLoad(r, u, p)
  \/ \E r \in Slots : LikeSave(r)
  \/ \E r \in Slots, u \in Users, p \in PostIds : UnlikeLoad(r, u, p)
  \/ \E r \in Slots : UnlikeSave(r)

Spec == Init /\ [][Next]_vars

\* -------------------------------- comments and post removal, concurrently
InitComments ==
  /\ users = Users
  /\ profiles = EmptyStore
  /\ \E present \in SUBSET PostIds :
       posts \in [present -> {NewPost(u) : u \in Users}]
  /\ reqs = [r \in Pair |-> IdleReq]
  /\ nextId = 1

NextComments ==
  \/ \E r \in Slots, u \in Users, p \in PostIds, e \in BOOLEAN :
       CommentLoad(r, u, p, e)
  \/ \E r \in Slots : CommentSave(r)
  \/ \E r \in Slots, u \in Users, p \in PostIds, c \in SubIds :
       DeleteCommentLoad(r, u, p, c)
  \/ \E r \in Slots : DeleteCommentSave(r)
  \/ \E r \in Slots, u \in Users, p \in PostIds : DeletePostLoad(r, u, p)
  \/ \E r \in Slots : DeletePostRemove(r)

SpecComments == InitComments /\ [][NextComments]_vars

\* ------------------------------- experience and education, concurrently
\* One user has created a profile (POST /profile), still with empty lists;
\* the other has none.
ProfileOwners == {"u1"}

InitProfile ==
  /\ users = Users
  /\ profiles = [u \in ProfileOwners |-> NewProfile]
  /\ posts = EmptyStore
  /\ reqs = [r \in Pair |-> IdleReq]
  /\ nextId = 1

NextProfile ==
  \/ \E r \in Slots, u \in Users, v \in BOOLEAN : AddExperienceLoad(r, u, v)
  \/ \E r \in Slots : AddExperienceSave(r)
  \/ \E r \in Slots, u \in Users, t \in SubIds : RemoveExperienceLoad(r, u, t)
  \/ \E r \in Slots : RemoveExperienceSave(r)
  \/ \E r \in Slots, u \in Users, v \in BOOLEAN : AddEducationLoad(r, u, v)
  \/ \E r \in Slots : AddEducationSave(r)
  \/ \E r \in Slots, u \in Users, t \in SubIds : RemoveEducationLoad(r, u, t)
  \/ \E r \in Slots : RemoveEducationSave(r)

SpecProfile == InitProfile /\ [][NextProfile]_vars

\* ------------------------------ account removal and post creation
\* Profiles are created by POST /profile.
InitAccount ==
  /\ users = Users
  /\ profiles = EmptyStore
  /\ posts = EmptyStore
  /\ reqs = [r \in Pair |-> IdleReq]
  /\ nextId = 1

NextAccount ==
  \/ \E r \in Slots, u \in Users, e \in BOOLEAN : CreatePostLoad(r, u, e)
  \/ \E r \in Slots : CreatePostSave(r)
  \/ \E r \in Slots, u \in Users : DeleteAccountPosts(r, u)
  \/ \E r \in Slots : DeleteAccountProfile(r)
  \/ \E r \in Slots : DeleteAccountUser(r)
  \/ \E r \in Slots, u \in Users, b \in DOMAIN Bodies : Upsert(r, u, b)

SpecAccount == InitAccount /\ [][NextAccount]_vars

\* ------------------- profile upsert with experience and education adds
InitUpsert ==
  /\ users = Users
  /\ profiles = EmptyStore
  /\ posts = EmptyStore
  /\ reqs = [r \in Pair |-> IdleReq]
  /\ nextId = 1

NextUpsert ==
  \/ \E r \in Slots, u \in Users, b \in DOMAIN Bodies : Upsert(r, u, b)
  \/ \E r \in Slots, u \in Users, v \in BOOLEAN : AddExperienceLoad(r, u, v)
  \/ \E r \in Slots : AddExperienceSave(r)
  \/ \E r \in Slots, u \in Users, v \in BOOLEAN : AddEducationLoad(r, u, v)
  \/ \E r \in Slots : AddEducationSave(r)

SpecUpsert == InitUpsert /\ [][NextUpsert]_vars

\* ================================================================ claims
\* The step in which the handler of slot r resumes from its loaded document
\* and answers.
Resumes(r) == reqs[r].pc = "loaded" /\ reqs'[r].pc = "done"

\* The users whose like is in a likes list.
Likers(likes) == {likes[i].user : i \in 1..Len(likes)}

\* The entries of a list, as a set.
Entries(list) == {list[i] : i \in 1..Len(list)}

\* ------------------------------------------------------------------- C1
\* C1 (as claimed): a DELETE /posts/comment/:id/:comment_id answered 200
\* saves the loaded comments without the comment whose id is comment_id, all
\* other comments kept in place and in order.
C1_DeletesTargetedComment ==
  [][\A r \in Slots :
       (/\ Resumes(r) /\ reqs[r].kind = "deleteComment"
        /\ reqs'[r].resp = "200" /\ reqs[r].post \in DOMAIN posts)
       => posts'[reqs[r].post].comments =
            SelectSeq(reqs[r].doc[1].comments,
                      LAMBDA c : c.id # reqs[r].target)]_vars

\* ------------------------------------------------------------------- C2
\* C2 (as claimed): removing an experience or education entry by an id that
\* matches no entry of the caller's profile answers 200 and saves the list
\* as it was loaded.
C2_UnknownIdLeavesListUnchanged ==
  [][\A r \in Slots :
       (/\ Resumes(r) /\ reqs[r].doc # Null
        /\ reqs[r].caller \in DOMAIN profiles
        /\ reqs[r].kind \in {"removeExperience", "removeEducation"}
        /\ LET list == IF reqs[r].kind = "removeExperience"
                       THEN reqs[r].doc[1].experience
                       ELSE reqs[r].doc[1].education
           IN  \A i \in 1..Len(list) : list[i].id # reqs[r].target)
       => /\ reqs'[r].resp = "200"
          /\ profiles'[reqs[r].caller] = reqs[r].doc[1]]_vars

\* ------------------------------------------------------------------- C3
\* C3 (as claimed): every request whose handler has finished was answered;
\* a handler that threw answered 500 and never left the client unanswered.
C3_ExceptionAnswered500 ==
  \A r \in Slots : reqs[r].pc = "done" => reqs[r].resp # "unhandled"

\* ------------------------------------------------------------------- C4
\* C4: in every reachable state, under every interleaving of the load and
\* save steps of like and unlike handlers, no likes list holds two entries
\* of the same user.
C4_OneLikePerUser ==
  \A p \in DOMAIN posts :
    \A i, j \in 1..Len(posts[p].likes) :
      i # j => posts[p].likes[i].user # posts[p].likes[j].user

\* Both users' likes are stored and a handler has saved over a document that
\* had changed since it loaded it.
C4_Witness ==
  \E p \in DOMAIN posts, r \in Slots :
    /\ Len(posts[p].likes) = 2
    /\ reqs[r].pc = "done" /\ reqs[r].resp = "200" /\ reqs[r].stale

\* ------------------------------------------------------------------- C5
\* C5: a like of a post whose loaded likes lack the caller answers 200 and
\* saves the caller's like in front of the loaded likes (length + 1, so
\* length 1 on a post without likes); a like of a post whose loaded likes
\* hold the caller, as after the caller's first like, answers 400 and leaves
\* the post store as it is.
C5_SecondLikeRejected ==
  [][\A r \in Slots :
       (Resumes(r) /\ reqs[r].kind = "like" /\ reqs[r].doc # Null)
       => LET u == reqs[r].caller
              p == reqs[r].post
              loaded == reqs[r].doc[1].likes
          IN  IF u \in Likers(loaded)
              THEN reqs'[r].resp = "400" /\ posts' = posts
              ELSE p \in DOMAIN posts =>
                     /\ reqs'[r].resp = "200"
                     /\ posts'[p].likes = <<[user |-> u]>> \o loaded
                     /\ Len(posts'[p].likes) = Len(loaded) + 1]_vars

\* The same caller liked the same post twice: the first request was answered
\* 200, the second 400, and the post holds the caller's single like.
C5_Witness ==
  \E r1, r2 \in Slots :
    /\ r1 # r2
    /\ reqs[r1].kind = "like" /\ reqs[r2].kind = "like"
    /\ reqs[r1].pc = "done" /\ reqs[r2].pc = "done"
    /\ reqs[r1].caller = reqs[r2].caller /\ reqs[r1].post = reqs[r2].post
    /\ reqs[r1].resp = "200" /\ reqs[r2].resp = "400"
    /\ reqs[r1].post \in DOMAIN posts
    /\ posts[reqs[r1].post].likes = <<[user |-> reqs[r1].caller]>>

\* ------------------------------------------------------------------- C6
\* C6: an unlike of an existing post whose loaded likes lack the caller
\* answers 400 and leaves the post store as it is; when the caller's like is
\* there, it answers 200 and saves the loaded likes without the caller's
\* entry: one entry fewer, the others in their prior order.
C6_UnlikeRemovesOnlyCaller ==
  [][\A r \in Slots :
       (Resumes(r) /\ reqs[r].kind = "unlike" /\ reqs[r].doc # Null)
       => LET u == reqs[r].caller
              p == reqs[r].post
              loaded == reqs[r].doc[1].likes
          IN  IF u \notin Likers(loaded)
              THEN reqs'[r].resp = "400" /\ posts' = posts
              ELSE p \in DOMAIN posts =>
                     /\ reqs'[r].resp = "200"
                     /\ posts'[p].likes =
                          SelectSeq(loaded, LAMBDA l : l.user # u)
                     /\ Len(posts'[p].likes) = Len(loaded) - 1]_vars

\* A caller's unlike was answered 200 and removed only the caller's like (the
\* other user's like is still stored); the caller's next unlike was
\* answered 400.
C6_Witness ==
  \E r1, r2 \in Slots :
    /\ r1 # r2
    /\ reqs[r1].kind = "unlike" /\ reqs[r2].kind = "unlike"
    /\ reqs[r1].pc = "done" /\ reqs[r2].pc = "done"
    /\ reqs[r1].caller = reqs[r2].caller /\ reqs[r1].post = reqs[r2].post
    /\ reqs[r1].resp = "200" /\ reqs[r2].resp = "400"
    /\ reqs[r1].post \in DOMAIN posts
    /\ Len(posts[reqs[r1].post].likes) = 1
    /\ reqs[r1].caller \notin Likers(posts[reqs[r1].post].likes)

\* ------------------------------------------------------------------- C7
\* C7: a DELETE /posts/:id by a caller who is not the author of the loaded
\* post answers 401 and leaves the post store as it is; a DELETE of a comment
\* by a caller who is not the author of the targeted comment answers 401 and
\* leaves the post store as it is; a post leaves the store only in the
\* remove step of a delete request of its author; and every comment that a
\* comment delete drops from the document it loaded is the caller's own.
C7_OnlyAuthorRemoves ==
  [][/\ \A r \in Slots :
          (/\ Resumes(r) /\ reqs[r].kind = "deletePost" /\ reqs[r].doc # Null
           /\ reqs[r].doc[1].user # reqs[r].caller)
          => reqs'[r].resp = "401" /\ posts' = posts
     /\ \A r \in Slots :
          (/\ Resumes(r) /\ reqs[r].kind = "deleteComment" /\ reqs[r].doc # Null
           /\ \E c \in Entries(reqs[r].doc[1].comments) :
                c.id = reqs[r].target /\ c.user # reqs[r].caller)
          => reqs'[r].resp = "401" /\ posts' = posts
     /\ \A p \in DOMAIN posts :
          p \notin DOMAIN posts'
          => \E r \in Slots :
               /\ Resumes(r) /\ reqs[r].kind = "deletePost"
               /\ reqs[r].post = p /\ reqs[r].caller = posts[p].user
     /\ \A r \in Slots :
          (/\ Resumes(r) /\ reqs[r].kind = "deleteComment" /\ reqs[r].doc # Null
           /\ reqs[r].post \in DOMAIN posts' /\ posts' # posts)
          => \A c \in Entries(reqs[r].doc[1].comments) :
               c \notin Entries(posts'[reqs[r].post].comments)
               => c.user = reqs[r].caller]_vars

\* A non-author's post delete was answered 401 and the post is still stored;
\* a non-author's comment delete was answered 401 and the targeted comment
\* is still in the post.
C7_Witness ==
  \E r1, r2 \in Slots, p \in DOMAIN posts :
    /\ reqs[r1].kind = "deletePost" /\ reqs[r1].pc = "done"
    /\ reqs[r1].post = p /\ reqs[r1].resp = "401"
    /\ reqs[r1].caller # posts[p].user
    /\ reqs[r2].kind = "deleteComment" /\ reqs[r2].pc = "done"
    /\ reqs[r2].post = p /\ reqs[r2].resp = "401"
    /\ \E c \in Entries(posts[p].comments) :
         c.id = reqs[r2].target /\ c.user # reqs[r2].caller

\* ------------------------------------------------------------------- C8
\* C8 (as claimed): in the step in which a DELETE /profile is answered 200,
\* also with other requests of the caller in flight, the stores end up
\* without the caller's user record, profile and posts.
C8_AccountFullyRemoved ==
  [][\A r \in Slots :
       (/\ reqs[r].kind = "deleteAccount" /\ reqs[r].pc = "user"
        /\ reqs'[r].pc = "done" /\ reqs'[r].resp = "200")
       => /\ reqs[r].caller \notin users'
          /\ reqs[r].caller \notin DOMAIN profiles'
          /\ \A k \in DOMAIN posts' : posts'[k].user # reqs[r].caller]_vars

\* ------------------------------------------------------------------- C9
\* C9: a like handler that saves a snapshot loaded before another user's
\* like was stored (no version is compared) is answered 200 like the other
\* request, and the stored likes then hold the caller's like and no longer
\* the other user's: one of the two list mutations is lost.
C9_StaleSaveLosesUpdate ==
  [][\A r \in Slots, v \in Users :
       (/\ Resumes(r) /\ reqs[r].kind = "like" /\ reqs[r].doc # Null
        /\ reqs[r].post \in DOMAIN posts
        /\ reqs[r].caller \notin Likers(reqs[r].doc[1].likes)
        /\ v # reqs[r].caller
        /\ v \in Likers(posts[reqs[r].post].likes)
        /\ v \notin Likers(reqs[r].doc[1].likes))
       => /\ reqs'[r].resp = "200"
          /\ v \notin Likers(posts'[reqs[r].post].likes)
          /\ reqs[r].caller \in Likers(posts'[reqs[r].post].likes)]_vars

\* Two likes of the same post by different users were both answered 200, the
\* second saved over the first, and only the second user's like is stored.
C9_Witness ==
  \E r1, r2 \in Slots :
    /\ reqs[r1].kind = "like" /\ reqs[r2].kind = "like"
    /\ reqs[r1].pc = "done" /\ reqs[r2].pc = "done"
    /\ reqs[r1].resp = "200" /\ reqs[r2].resp = "200"
    /\ reqs[r1].caller # reqs[r2].caller /\ reqs[r1].post = reqs[r2].post
    /\ reqs[r2].stale
    /\ reqs[r1].post \in DOMAIN posts
    /\ posts[reqs[r1].post].likes = <<[user |-> reqs[r2].caller]>>

\* ------------------------------------------------------------------ C10
\* The entries of a list are in the order of their insertion, newest first.
NewestFirst(list) ==
  \A i, j \in 1..Len(list) : i < j => list[i].id > list[j].id

\* C10: an add of an experience (education) entry for a caller with a
\* profile answers 200 and saves the loaded list with one new entry at index
\* 0 and the prior entries shifted back by one in their order, the other
\* list as loaded; and every stored list is newest-first by insertion.
C10_AddInsertsAtFront ==
  /\ [](\A u \in DOMAIN profiles :
          NewestFirst(profiles[u].experience)
          /\ NewestFirst(profiles[u].education))
  /\ [][\A r \in Slots :
          (/\ Resumes(r) /\ reqs[r].doc # Null
           /\ reqs[r].kind \in {"addExperience", "addEducation"}
           /\ reqs[r].caller \in DOMAIN profiles)
          => LET exp == reqs[r].kind = "addExperience"
                 old == reqs[r].doc[1]
                 new == profiles'[reqs[r].caller]
                 before == IF exp THEN old.experience ELSE old.education
                 after == IF exp THEN new.experience ELSE new.education
             IN  /\ reqs'[r].resp = "200"
                 /\ Len(after) = Len(before) + 1
                 /\ after[1] \notin Entries(before)
                 /\ \A i \in 1..Len(before) : after[i + 1] = before[i]
                 /\ IF exp THEN new.education = old.education
                           ELSE new.experience = old.experience]_vars

\* Two experience entries were added one after the other: the second add
\* was answered 200 and its entry stands in front of the first.
C10_Witness ==
  \E r \in Slots :
    /\ reqs[r].kind = "addExperience" /\ reqs[r].pc = "done"
    /\ reqs[r].resp = "200" /\ ~reqs[r].stale
    /\ reqs[r].caller \in DOMAIN profiles
    /\ Len(profiles[reqs[r].caller].experience) = 2
    /\ profiles[reqs[r].caller].experience[1].id = nextId - 1

\* ------------------------------------------------------------------ C11
\* The fields POST /profile lists, as a stored profile holds them.
Listed(doc) ==
  [company |-> doc.company, location |-> doc.location,
   website |-> doc.website, bio |-> doc.bio, skills |-> doc.skills,
   status |-> doc.status, githubusername |-> doc.githubusername,
   social |-> doc.social]

\* The body fields that reach $set as they arrive.
PlainFields == {"company", "location", "bio", "githubusername"}

\* C11: every valid POST /profile leaves the caller with one profile whose
\* listed fields are those the same request gives a caller without a
\* profile, so nothing of an earlier upsert survives (a plain field the
\* request omits is stored as null, not with its earlier value), while the
\* experience and education lists and the other profiles stay as they were.
C11_UpsertReplacesListedFields ==
  [][\A r \in Slots, u \in Users, b \in DOMAIN Bodies :
       (Upsert(r, u, b) /\ ValidProfileBody(Bodies[b]))
       => LET body == Bodies[b]
              fresh == FindOneAndUpdate(EmptyStore, u,
                                        ProfileFields(u, body))[u]
          IN  /\ reqs'[r].resp = "200"
              /\ u \in DOMAIN profiles'
              /\ profiles'[u].user = u
              /\ Listed(profiles'[u]) = Listed(fresh)
              /\ \A f \in PlainFields :
                   profiles'[u][f] = IF body[f] = Undefined THEN StoredNull
                                                            ELSE body[f]
              /\ profiles'[u].status = body.status
              /\ profiles'[u].experience =
                   IF u \in DOMAIN profiles THEN profiles[u].experience
                                            ELSE <<>>
              /\ profiles'[u].education =
                   IF u \in DOMAIN profiles THEN profiles[u].education
                                            ELSE <<>>
              /\ DOMAIN profiles' = (DOMAIN profiles) \cup {u}
              /\ \A v \in DOMAIN profiles :
                   v # u => profiles'[v] = profiles[v]]_vars

\* A caller's two upserts were both answered 200, the first with a company
\* and without a location, the second the other way round, with an
\* experience entry added in between: the profile holds the second call's
\* values, no company, and still the experience entry.
C11_Witness ==
  \E r1, r2 \in Slots :
    /\ r1 # r2
    /\ reqs[r1].kind = "upsert" /\ reqs[r2].kind = "upsert"
    /\ reqs[r1].pc = "done" /\ reqs[r2].pc = "done"
    /\ reqs[r1].resp = "200" /\ reqs[r2].resp = "200"
    /\ reqs[r1].caller = reqs[r2].caller
    /\ Bodies[reqs[r1].target].company # Undefined
    /\ Bodies[reqs[r2].target].company = Undefined
    /\ reqs[r2].caller \in DOMAIN profiles
    /\ LET doc == profiles[reqs[r2].caller]
       IN  /\ doc.company = StoredNull
           /\ doc.location = Bodies[reqs[r2].target].location
           /\ doc.status = Bodies[reqs[r2].target].status
           /\ doc.skills = Bodies[reqs[r2].target].skills.list
           /\ doc.social.youtube = "https://y.tv"
           /\ doc.social.twitter = StoredNull
           /\ Len(doc.experience) = 1

\* ------------------------------------------------------------------ C12
\* C12 (as claimed): in every state, every stored profile and every stored
\* post refers to a user of the identity store.
C12_ReferentialIntegrity ==
  /\ \A u \in DOMAIN profiles : u \in users
  /\ \A k \in DOMAIN posts : posts[k].user \in users
====
